---- MODULE Spec2Model ----
(***************************************************************************)
(* The plugin registry of the MCP server core (PluginRegistry), the tool   *)
(* publication gate of PluginBase.registerTool, and the mode resolution of *)
(* the plugin constructors.                                                *)
(*                                                                         *)
(* The registry is driven by sequential calls; every action is one whole   *)
(* call of a public method.  lastCall records what the last call did: the  *)
(* lifecycle methods it invoked, how it ended, what it logged and what it  *)
(* returned.                                                               *)
(***************************************************************************)
EXTENDS Integers, Sequences, FiniteSets, TLC

VARIABLES
    plugins,      \* PluginRegistry.plugins: the Map, as its entries in insertion order
    serverTools,  \* names of the tools registered on the McpServer
    defaultMode,  \* PluginRegistry.defaultMode
    nextId,       \* identity of the next plugin instance `new PluginClass` creates
    lastCall,     \* record of the last registry call
    sweeping,     \* the cleanup() or healthCheckAll() sweep in progress
    registering,  \* the registerPlugin calls suspended at an await
    instance,     \* one database plugin instance and its client or pool
    http          \* the HTTP server of the Redis MCP server

vars == <<plugins, serverTools, defaultMode, nextId, lastCall, sweeping,
         registering, instance, http>>

\* Number of plugin instances constructed in one behaviour.
MaxInstances == 2

\* JavaScript `undefined`: an absent config key, environment variable,
\* metadata.mode or return value.
NoValue == "undefined"

---------------------------------------------------------------------------
(* PluginMode and the mode resolution of the plugin constructors *)

READONLY == "readonly"

FULL == "full"

\* The enum object: member name |-> value.
PluginMode == [READONLY |-> READONLY, FULL |-> FULL]

\* Properties every object inherits; `in` sees them as well.
ObjectPrototypeKeys == {"toString"}

\* `s in PluginMode`
InPluginMode(s) == s \in (DOMAIN PluginMode) \cup ObjectPrototypeKeys

\* Values config.mode and the *_MODE environment variable are drawn from.
ModeInputs == {NoValue, "full", "READONLY", "FULL"}

\* Values config.mode and MYSQL_MODE are drawn from: the mode only the MySQL
\* plugin documents.
MysqlModeInputs == {NoValue, "WRITEONLY"}

\* The constructor of the database plugins: config.mode, then the
\* environment variable, then READONLY.
ResolveMode(configMode, modeFromEnv) ==
    IF configMode # NoValue /\ InPluginMode(configMode) THEN configMode
    ELSE IF modeFromEnv # NoValue /\ InPluginMode(modeFromEnv) THEN modeFromEnv
    ELSE PluginMode.READONLY

---------------------------------------------------------------------------
(* Plugin classes *)

\* RedisPlugin stands for the database plugins (their constructors share the
\* mode resolution); MysqlPlugin is the one whose documentation has a third
\* mode, WRITEONLY; SwaggerParserPlugin leaves metadata.mode to the
\* registry; MyPlugin is a PluginBase subclass that passes both explicit
\* values of isWriteTool to registerTool; BarePlugin implements IPlugin
\* with the required members only (no cleanup, no healthCheck, no tools).
PluginClasses == {"RedisPlugin", "MysqlPlugin", "SwaggerParserPlugin", "MyPlugin", "BarePlugin"}

\* Classes whose constructor resolves metadata.mode itself.
DatabasePlugins == {"RedisPlugin", "MysqlPlugin"}

\* Classes extending PluginBase (they inherit cleanup and healthCheck and
\* publish their tools through PluginBase.registerTool).
PluginBaseClasses == {"RedisPlugin", "MysqlPlugin", "SwaggerParserPlugin", "MyPlugin"}

MetadataName(c) ==
    CASE c = "RedisPlugin" -> "redis"
      [] c = "MysqlPlugin" -> "mysql"
      [] c = "SwaggerParserPlugin" -> "swagger-parser"
      [] c = "MyPlugin" -> "my-plugin"
      [] c = "BarePlugin" -> "bare"

PluginNames == {MetadataName(c) : c \in PluginClasses}

\* The options of the registerTool calls in the class's register(), in
\* call order.  A tool declared without isWriteTool has no such field.
ToolsOf(c) ==
    CASE c = "RedisPlugin" ->
            << [name |-> "redis_get"],
               [name |-> "redis_set", isWriteTool |-> TRUE],
               [name |-> "redis_del", isWriteTool |-> TRUE] >>
      [] c = "MysqlPlugin" ->
            << [name |-> "mysql_query"],
               [name |-> "mysql_execute", isWriteTool |-> TRUE],
               [name |-> "mysql_kill_query", isWriteTool |-> TRUE],
               [name |-> "mysql_optimize_table", isWriteTool |-> TRUE],
               [name |-> "mysql_analyze_table", isWriteTool |-> TRUE] >>
      [] c = "SwaggerParserPlugin" ->
            << [name |-> "swagger_execute_get"],
               [name |-> "swagger_execute_post", isWriteTool |-> TRUE] >>
      [] c = "MyPlugin" ->
            << [name |-> "my_write_tool", isWriteTool |-> TRUE],
               [name |-> "my_tool", isWriteTool |-> FALSE] >>
      [] c = "BarePlugin" -> << >>

\* The tools a class declares with isWriteTool: true, and the others.
DeclaredWrite(options) == "isWriteTool" \in DOMAIN options /\ options.isWriteTool = TRUE

AllTools(c) == {ToolsOf(c)[i].name : i \in 1..Len(ToolsOf(c))}

WriteTools(c) == {ToolsOf(c)[i].name : i \in {j \in 1..Len(ToolsOf(c)) : DeclaredWrite(ToolsOf(c)[j])}}

ReadTools(c) == AllTools(c) \ WriteTools(c)

\* metadata.mode after `new PluginClass(config)`.
ConstructorMode(c, configMode, modeFromEnv) ==
    IF c \in DatabasePlugins THEN ResolveMode(configMode, modeFromEnv) ELSE NoValue

\* IPlugin.cleanup? and IPlugin.healthCheck? are optional.
HasCleanup(c) == c \in PluginBaseClasses

HasHealthCheck(c) == c \in PluginBaseClasses

---------------------------------------------------------------------------
(* PluginBase.registerTool *)

\* Mutation: every mode other than PluginMode.FULL counts as readonly.
isReadonly_NotFull(mode) == mode # PluginMode.FULL

isReadonly(mode) == mode = PluginMode.READONLY

isFullMode(mode) == mode = PluginMode.FULL

\* Mutation: the default of an omitted isWriteTool is true.
IsWriteTool_DefaultTrue(options) ==
    IF "isWriteTool" \in DOMAIN options THEN options.isWriteTool ELSE TRUE

\* `isWriteTool = false` in the destructuring of the options.
IsWriteTool(options) ==
    IF "isWriteTool" \in DOMAIN options THEN options.isWriteTool ELSE FALSE

\* Mutation: the readonly check is missing.
SkipsTool_NeverSkips(mode, options) == FALSE

\* Mutation: a tool counts as a write tool unless its name says it reads.
SkipsTool_ByToolName(mode, options) ==
    /\ options.name \notin {"redis_get", "mysql_query", "swagger_execute_get"}
    /\ isReadonly(mode)

\* registerTool returns early, without touching the server.
SkipsTool(mode, options) == IsWriteTool(options) /\ isReadonly(mode)


\* Mutation: a skipped write tool throws instead of returning; register()
\* ends there.
RECURSIVE RegisterFrom_SkipThrows(_, _, _, _, _)
RegisterFrom_SkipThrows(tools, i, mode, throwAt, published) ==
    IF i > Len(tools) THEN [published |-> published, threw |-> FALSE]
    ELSE IF SkipsTool(mode, tools[i]) THEN [published |-> published, threw |-> TRUE]
    ELSE IF i = throwAt THEN [published |-> published, threw |-> TRUE]
    ELSE RegisterFrom_SkipThrows(tools, i + 1, mode, throwAt, published \cup {tools[i].name})

\* plugin.register(context): the registerTool calls from the i-th on.  The
\* call server.registerTool of the tool at index throwAt is rejected by the
\* server (throwAt = 0: none is); the exception ends register().  The
\* server is an external collaborator: any call that reaches it may be
\* rejected, and accepting a name it already holds leaves its tools as
\* they are.
RECURSIVE RegisterFrom(_, _, _, _, _)
RegisterFrom(tools, i, mode, throwAt, published) ==
    IF i > Len(tools) THEN [published |-> published, threw |-> FALSE]
    ELSE IF SkipsTool(mode, tools[i]) THEN RegisterFrom(tools, i + 1, mode, throwAt, published)
    ELSE IF i = throwAt THEN [published |-> published, threw |-> TRUE]
    ELSE RegisterFrom(tools, i + 1, mode, throwAt, published \cup {tools[i].name})

\* The name of the k-th tool register() of class c publishes.
ToolAt(c, k) == IF k \in 1..Len(ToolsOf(c)) THEN ToolsOf(c)[k].name ELSE NoValue

\* Mutation: the tools of a register() that threw are taken back.
Register_RetractsOnThrow(c, mode, throwAt) ==
    LET run == RegisterFrom(ToolsOf(c), 1, mode, throwAt, {})
    IN IF run.threw THEN [published |-> {}, threw |-> TRUE] ELSE run

Register(c, mode, throwAt) == RegisterFrom(ToolsOf(c), 1, mode, throwAt, {})

---------------------------------------------------------------------------
(* PluginRegistry *)

\* Map accessors.
Keys == {plugins[i].name : i \in 1..Len(plugins)}

Entry(name) == plugins[CHOOSE i \in 1..Len(plugins) : plugins[i].name = name]

\* Mutation: the lookup never finds a plugin.
hasPlugin_Never(name) == FALSE

hasPlugin(name) == name \in Keys

\* Map.get
getPlugin(name) == IF name \in Keys THEN Entry(name) ELSE NoValue

getAllPlugins == plugins

\* Mutation: unregisterPlugin empties the map (clear instead of delete).
MapDelete_ClearsMap(map, name) == << >>

\* Map.delete
MapDelete(map, name) == SelectSeq(map, LAMBDA e : e.name # name)

\* No database plugin instance has been constructed.
NoInstance == [class |-> NoValue]

\* The HTTP server has not been created.
NoHttp == [listening |-> FALSE]

\* No sweep is in progress.
NoSweep == [op |-> "none", next |-> 0, inFlight |-> {}]

\* One lifecycle call: method fn invoked on instance id.
Call(id, fn) == [id |-> id, fn |-> fn]

NoResults == [n \in {} |-> TRUE]

\* The record of a call of method op that did nothing yet: which plugin it
\* was about (name, class, id, mode), how it ended (outcome, error), the
\* lifecycle calls it made, the tools it published on the server, the
\* lifecycle calls among them that threw (raised), the tool the server
\* rejected (rejected), the plugins it logged an
\* error for, what it returned, its inputs, and the registry map and the
\* server tools it started from.
CallRecord(op, input) ==
    [op |-> op, input |-> input,
     name |-> NoValue, class |-> NoValue, id |-> 0, mode |-> NoValue,
     outcome |-> "ok", error |-> "none", calls |-> << >>, raised |-> {},
     rejected |-> NoValue,
     published |-> {}, logged |-> {},
     returns |-> "void", results |-> NoResults,
     before |-> plugins, toolsBefore |-> serverTools]

Init ==
    /\ plugins = << >>
    /\ serverTools = {}
    /\ defaultMode \in {PluginMode.READONLY, PluginMode.FULL}
    /\ nextId = 1
    /\ lastCall = CallRecord("none", << >>)
    /\ sweeping = NoSweep
    /\ registering = << >>
    /\ instance = NoInstance
    /\ http = NoHttp

\* Mutation: no await on initialize; register runs although initialize
\* rejected.
registerPlugin_RegistersAfterFailedInit(PluginClass, configMode, modeFromEnv, initThrows, throwAt) ==
    /\ UNCHANGED <<registering, instance, http>>
    /\ nextId <= MaxInstances
    /\ nextId' = nextId + 1
    /\ UNCHANGED <<defaultMode, sweeping>>
    /\ LET pluginName == MetadataName(PluginClass)
           ctorMode == ConstructorMode(PluginClass, configMode, modeFromEnv)
           mode == IF ctorMode = NoValue THEN defaultMode ELSE ctorMode
           run == Register(PluginClass, mode, throwAt)
           call == [CallRecord("registerPlugin",
                               [configMode |-> configMode, modeFromEnv |-> modeFromEnv])
                    EXCEPT !.name = pluginName, !.class = PluginClass, !.id = nextId]
       IN
       IF hasPlugin(pluginName) THEN
           /\ UNCHANGED <<plugins, serverTools>>
           /\ lastCall' = [call EXCEPT !.mode = ctorMode,
                                       !.outcome = "threw", !.error = "duplicate"]
       ELSE IF initThrows THEN
           /\ UNCHANGED plugins
           /\ serverTools' = serverTools \cup run.published
           /\ lastCall' = [call EXCEPT !.mode = mode,
                                       !.outcome = "threw", !.error = "initialize",
                                       !.raised = {Call(nextId, "initialize")},
                                       !.calls = <<Call(nextId, "initialize"),
                                                   Call(nextId, "register")>>,
                                       !.published = run.published,
                                       !.logged = {pluginName}]
       ELSE IF run.threw THEN
           /\ UNCHANGED plugins
           /\ serverTools' = serverTools \cup run.published
           /\ lastCall' = [call EXCEPT !.mode = mode,
                                       !.outcome = "threw", !.error = "register",
                                       !.raised = {Call(nextId, "register")},
                                       !.rejected = ToolAt(PluginClass, throwAt),
                                       !.calls = <<Call(nextId, "initialize"),
                                                   Call(nextId, "register")>>,
                                       !.published = run.published,
                                       !.logged = {pluginName}]
       ELSE
           /\ plugins' = Append(plugins, [name |-> pluginName, id |-> nextId,
                                          class |-> PluginClass, mode |-> mode])
           /\ serverTools' = serverTools \cup run.published
           /\ lastCall' = [call EXCEPT !.mode = mode,
                                       !.calls = <<Call(nextId, "initialize"),
                                                   Call(nextId, "register")>>,
                                       !.published = run.published]

\* Mutation: metadata is one object shared by the plugin instances; the
\* mode written for the new plugin shows on every stored plugin.
registerPlugin_ModeOnSharedMetadata(PluginClass, configMode, modeFromEnv, initThrows, throwAt) ==
    /\ UNCHANGED <<registering, instance, http>>
    /\ nextId <= MaxInstances
    /\ nextId' = nextId + 1
    /\ UNCHANGED <<defaultMode, sweeping>>
    /\ LET pluginName == MetadataName(PluginClass)
           ctorMode == ConstructorMode(PluginClass, configMode, modeFromEnv)
           mode == IF ctorMode = NoValue THEN defaultMode ELSE ctorMode
           run == Register(PluginClass, mode, throwAt)
           call == [CallRecord("registerPlugin",
                               [configMode |-> configMode, modeFromEnv |-> modeFromEnv])
                    EXCEPT !.name = pluginName, !.class = PluginClass, !.id = nextId]
       IN
       IF hasPlugin(pluginName) THEN
           /\ UNCHANGED <<plugins, serverTools>>
           /\ lastCall' = [call EXCEPT !.mode = ctorMode,
                                       !.outcome = "threw", !.error = "duplicate"]
       ELSE IF initThrows THEN
           /\ UNCHANGED <<plugins, serverTools>>
           /\ lastCall' = [call EXCEPT !.mode = mode,
                                       !.outcome = "threw", !.error = "initialize",
                                       !.raised = {Call(nextId, "initialize")},
                                       !.calls = <<Call(nextId, "initialize")>>,
                                       !.logged = {pluginName}]
       ELSE IF run.threw THEN
           /\ UNCHANGED plugins
           /\ serverTools' = serverTools \cup run.published
           /\ lastCall' = [call EXCEPT !.mode = mode,
                                       !.outcome = "threw", !.error = "register",
                                       !.raised = {Call(nextId, "register")},
                                       !.rejected = ToolAt(PluginClass, throwAt),
                                       !.calls = <<Call(nextId, "initialize"),
                                                   Call(nextId, "register")>>,
                                       !.published = run.published,
                                       !.logged = {pluginName}]
       ELSE
           /\ plugins' = Append([i \in 1..Len(plugins) |-> [plugins[i] EXCEPT !.mode = mode]],
                                [name |-> pluginName, id |-> nextId,
                                 class |-> PluginClass, mode |-> mode])
           /\ serverTools' = serverTools \cup run.published
           /\ lastCall' = [call EXCEPT !.mode = mode,
                                       !.calls = <<Call(nextId, "initialize"),
                                                   Call(nextId, "register")>>,
                                       !.published = run.published]

\* Mutation: the catch block calls cleanup() of the instance whose
\* initialize rejected.
registerPlugin_CleansUpAfterFailedInit(PluginClass, configMode, modeFromEnv, initThrows, throwAt) ==
    /\ UNCHANGED <<registering, instance, http>>
    /\ nextId <= MaxInstances
    /\ nextId' = nextId + 1
    /\ UNCHANGED <<defaultMode, sweeping>>
    /\ LET pluginName == MetadataName(PluginClass)
           ctorMode == ConstructorMode(PluginClass, configMode, modeFromEnv)
           mode == IF ctorMode = NoValue THEN defaultMode ELSE ctorMode
           run == Register(PluginClass, mode, throwAt)
           call == [CallRecord("registerPlugin",
                               [configMode |-> configMode, modeFromEnv |-> modeFromEnv])
                    EXCEPT !.name = pluginName, !.class = PluginClass, !.id = nextId]
       IN
       IF hasPlugin(pluginName) THEN
           /\ UNCHANGED <<plugins, serverTools>>
           /\ lastCall' = [call EXCEPT !.mode = ctorMode,
                                       !.outcome = "threw", !.error = "duplicate"]
       ELSE IF initThrows THEN
           /\ UNCHANGED <<plugins, serverTools>>
           /\ lastCall' = [call EXCEPT !.mode = mode,
                                       !.outcome = "threw", !.error = "initialize",
                                       !.raised = {Call(nextId, "initialize")},
                                       !.calls = <<Call(nextId, "initialize"),
                                                   Call(nextId, "cleanup")>>,
                                       !.logged = {pluginName}]
       ELSE IF run.threw THEN
           /\ UNCHANGED plugins
           /\ serverTools' = serverTools \cup run.published
           /\ lastCall' = [call EXCEPT !.mode = mode,
                                       !.outcome = "threw", !.error = "register",
                                       !.raised = {Call(nextId, "register")},
                                       !.rejected = ToolAt(PluginClass, throwAt),
                                       !.calls = <<Call(nextId, "initialize"),
                                                   Call(nextId, "register")>>,
                                       !.published = run.published,
                                       !.logged = {pluginName}]
       ELSE
           /\ plugins' = Append(plugins, [name |-> pluginName, id |-> nextId,
                                          class |-> PluginClass, mode |-> mode])
           /\ serverTools' = serverTools \cup run.published
           /\ lastCall' = [call EXCEPT !.mode = mode,
                                       !.calls = <<Call(nextId, "initialize"),
                                                   Call(nextId, "register")>>,
                                       !.published = run.published]

\* Mutation: the registry assigns its default mode without testing
\* whether the instance has one.
registerPlugin_AlwaysAppliesDefault(PluginClass, configMode, modeFromEnv, initThrows, throwAt) ==
    /\ UNCHANGED <<registering, instance, http>>
    /\ nextId <= MaxInstances
    /\ nextId' = nextId + 1
    /\ UNCHANGED <<defaultMode, sweeping>>
    /\ LET pluginName == MetadataName(PluginClass)
           ctorMode == ConstructorMode(PluginClass, configMode, modeFromEnv)
           mode == defaultMode
           run == Register(PluginClass, mode, throwAt)
           call == [CallRecord("registerPlugin",
                               [configMode |-> configMode, modeFromEnv |-> modeFromEnv])
                    EXCEPT !.name = pluginName, !.class = PluginClass, !.id = nextId]
       IN
       IF hasPlugin(pluginName) THEN
           /\ UNCHANGED <<plugins, serverTools>>
           /\ lastCall' = [call EXCEPT !.mode = ctorMode,
                                       !.outcome = "threw", !.error = "duplicate"]
       ELSE IF initThrows THEN
           /\ UNCHANGED <<plugins, serverTools>>
           /\ lastCall' = [call EXCEPT !.mode = mode,
                                       !.outcome = "threw", !.error = "initialize",
                                       !.raised = {Call(nextId, "initialize")},
                                       !.calls = <<Call(nextId, "initialize")>>,
                                       !.logged = {pluginName}]
       ELSE IF run.threw THEN
           /\ UNCHANGED plugins
           /\ serverTools' = serverTools \cup run.published
           /\ lastCall' = [call EXCEPT !.mode = mode,
                                       !.outcome = "threw", !.error = "register",
                                       !.raised = {Call(nextId, "register")},
                                       !.rejected = ToolAt(PluginClass, throwAt),
                                       !.calls = <<Call(nextId, "initialize"),
                                                   Call(nextId, "register")>>,
                                       !.published = run.published,
                                       !.logged = {pluginName}]
       ELSE
           /\ plugins' = Append(plugins, [name |-> pluginName, id |-> nextId,
                                          class |-> PluginClass, mode |-> mode])
           /\ serverTools' = serverTools \cup run.published
           /\ lastCall' = [call EXCEPT !.mode = mode,
                                       !.calls = <<Call(nextId, "initialize"),
                                                   Call(nextId, "register")>>,
                                       !.published = run.published]

\* Mutation: this.plugins.set runs before initialize and register.
registerPlugin_StoresFirst(PluginClass, configMode, modeFromEnv, initThrows, throwAt) ==
    /\ UNCHANGED <<registering, instance, http>>
    /\ nextId <= MaxInstances
    /\ nextId' = nextId + 1
    /\ UNCHANGED <<defaultMode, sweeping>>
    /\ LET pluginName == MetadataName(PluginClass)
           ctorMode == ConstructorMode(PluginClass, configMode, modeFromEnv)
           mode == IF ctorMode = NoValue THEN defaultMode ELSE ctorMode
           run == Register(PluginClass, mode, throwAt)
           call == [CallRecord("registerPlugin",
                               [configMode |-> configMode, modeFromEnv |-> modeFromEnv])
                    EXCEPT !.name = pluginName, !.class = PluginClass, !.id = nextId]
       IN
       IF hasPlugin(pluginName) THEN
           /\ UNCHANGED <<plugins, serverTools>>
           /\ lastCall' = [call EXCEPT !.mode = ctorMode,
                                       !.outcome = "threw", !.error = "duplicate"]
       ELSE IF initThrows THEN
           /\ plugins' = Append(plugins, [name |-> pluginName, id |-> nextId,
                                          class |-> PluginClass, mode |-> mode])
           /\ UNCHANGED serverTools
           /\ lastCall' = [call EXCEPT !.mode = mode,
                                       !.outcome = "threw", !.error = "initialize",
                                       !.raised = {Call(nextId, "initialize")},
                                       !.calls = <<Call(nextId, "initialize")>>,
                                       !.logged = {pluginName}]
       ELSE IF run.threw THEN
           /\ plugins' = Append(plugins, [name |-> pluginName, id |-> nextId,
                                          class |-> PluginClass, mode |-> mode])
           /\ serverTools' = serverTools \cup run.published
           /\ lastCall' = [call EXCEPT !.mode = mode,
                                       !.outcome = "threw", !.error = "register",
                                       !.raised = {Call(nextId, "register")},
                                       !.rejected = ToolAt(PluginClass, throwAt),
                                       !.calls = <<Call(nextId, "initialize"),
                                                   Call(nextId, "register")>>,
                                       !.published = run.published,
                                       !.logged = {pluginName}]
       ELSE
           /\ plugins' = Append(plugins, [name |-> pluginName, id |-> nextId,
                                          class |-> PluginClass, mode |-> mode])
           /\ serverTools' = serverTools \cup run.published
           /\ lastCall' = [call EXCEPT !.mode = mode,
                                       !.calls = <<Call(nextId, "initialize"),
                                                   Call(nextId, "register")>>,
                                       !.published = run.published]

\* registerPlugin(PluginClass, config) with config.mode = configMode and the
\* class's mode environment variable = modeFromEnv; initThrows: initialize
\* rejects; throwAt: see RegisterFrom.
registerPlugin(PluginClass, configMode, modeFromEnv, initThrows, throwAt) ==
    /\ UNCHANGED <<registering, instance, http>>
    /\ nextId <= MaxInstances
    /\ nextId' = nextId + 1
    /\ UNCHANGED <<defaultMode, sweeping>>
    /\ LET pluginName == MetadataName(PluginClass)
           ctorMode == ConstructorMode(PluginClass, configMode, modeFromEnv)
           mode == IF ctorMode = NoValue THEN defaultMode ELSE ctorMode
           run == Register(PluginClass, mode, throwAt)
           call == [CallRecord("registerPlugin",
                               [configMode |-> configMode, modeFromEnv |-> modeFromEnv])
                    EXCEPT !.name = pluginName, !.class = PluginClass, !.id = nextId]
       IN
       IF hasPlugin(pluginName) THEN
           /\ UNCHANGED <<plugins, serverTools>>
           /\ lastCall' = [call EXCEPT !.mode = ctorMode,
                                       !.outcome = "threw", !.error = "duplicate"]
       ELSE IF initThrows THEN
           /\ UNCHANGED <<plugins, serverTools>>
           /\ lastCall' = [call EXCEPT !.mode = mode,
                                       !.outcome = "threw", !.error = "initialize",
                                       !.raised = {Call(nextId, "initialize")},
                                       !.calls = <<Call(nextId, "initialize")>>,
                                       !.logged = {pluginName}]
       ELSE IF run.threw THEN
           /\ UNCHANGED plugins
           /\ serverTools' = serverTools \cup run.published
           /\ lastCall' = [call EXCEPT !.mode = mode,
                                       !.outcome = "threw", !.error = "register",
                                       !.raised = {Call(nextId, "register")},
                                       !.rejected = ToolAt(PluginClass, throwAt),
                                       !.calls = <<Call(nextId, "initialize"),
                                                   Call(nextId, "register")>>,
                                       !.published = run.published,
                                       !.logged = {pluginName}]
       ELSE
           /\ plugins' = Append(plugins, [name |-> pluginName, id |-> nextId,
                                          class |-> PluginClass, mode |-> mode])
           /\ serverTools' = serverTools \cup run.published
           /\ lastCall' = [call EXCEPT !.mode = mode,
                                       !.calls = <<Call(nextId, "initialize"),
                                                   Call(nextId, "register")>>,
                                       !.published = run.published]

\* A plugin driven without the registry: new PluginClass(config), then
\* plugin.initialize(context) and plugin.register(context).
driveDirectly(PluginClass, configMode, modeFromEnv, initThrows, throwAt) ==
    /\ UNCHANGED <<registering, instance, http>>
    /\ nextId <= MaxInstances
    /\ nextId' = nextId + 1
    /\ UNCHANGED <<plugins, defaultMode, sweeping>>
    /\ LET mode == ConstructorMode(PluginClass, configMode, modeFromEnv)
           run == Register(PluginClass, mode, throwAt)
           call == [CallRecord("driveDirectly",
                               [configMode |-> configMode, modeFromEnv |-> modeFromEnv])
                    EXCEPT !.name = MetadataName(PluginClass), !.class = PluginClass,
                           !.id = nextId, !.mode = mode]
       IN
       IF initThrows THEN
           /\ UNCHANGED serverTools
           /\ lastCall' = [call EXCEPT !.outcome = "threw", !.error = "initialize",
                                       !.raised = {Call(nextId, "initialize")},
                                       !.calls = <<Call(nextId, "initialize")>>]
       ELSE
           /\ serverTools' = serverTools \cup run.published
           /\ lastCall' = [call EXCEPT !.outcome = IF run.threw THEN "threw" ELSE "ok",
                                       !.error = IF run.threw THEN "register" ELSE "none",
                                       !.raised = IF run.threw THEN {Call(nextId, "register")}
                                                  ELSE {},
                                       !.rejected = IF run.threw
                                                    THEN ToolAt(PluginClass, throwAt)
                                                    ELSE NoValue,
                                       !.calls = <<Call(nextId, "initialize"),
                                                   Call(nextId, "register")>>,
                                       !.published = run.published]

\* Mutation: no check that the plugin exists; an unknown name is ignored.
unregisterPlugin_IgnoresMissing(name, cleanupThrows) ==
    /\ UNCHANGED <<registering, instance, http>>
    /\ UNCHANGED <<serverTools, defaultMode, nextId, sweeping>>
    /\ LET plugin == getPlugin(name)
           call == [CallRecord("unregisterPlugin", [cleanupThrows |-> cleanupThrows])
                    EXCEPT !.name = name]
       IN
       IF ~hasPlugin(name) THEN
           /\ UNCHANGED plugins
           /\ lastCall' = call
       ELSE IF HasCleanup(plugin.class) /\ cleanupThrows THEN
           /\ UNCHANGED plugins
           /\ lastCall' = [call EXCEPT !.class = plugin.class, !.id = plugin.id,
                                       !.mode = plugin.mode,
                                       !.outcome = "threw", !.error = "cleanup",
                                       !.raised = {Call(plugin.id, "cleanup")},
                                       !.calls = <<Call(plugin.id, "cleanup")>>]
       ELSE
           /\ plugins' = MapDelete(plugins, name)
           /\ lastCall' = [call EXCEPT !.class = plugin.class, !.id = plugin.id,
                                       !.mode = plugin.mode,
                                       !.calls = IF HasCleanup(plugin.class)
                                                 THEN <<Call(plugin.id, "cleanup")>>
                                                 ELSE << >>]

\* Mutation: plugin.cleanup() is wrapped in the try/catch of the shutdown
\* sweep; its error is logged and the plugin removed.
unregisterPlugin_LogsCleanupError(name, cleanupThrows) ==
    /\ UNCHANGED <<registering, instance, http>>
    /\ UNCHANGED <<serverTools, defaultMode, nextId, sweeping>>
    /\ LET plugin == getPlugin(name)
           call == [CallRecord("unregisterPlugin", [cleanupThrows |-> cleanupThrows])
                    EXCEPT !.name = name]
       IN
       IF ~hasPlugin(name) THEN
           /\ UNCHANGED plugins
           /\ lastCall' = [call EXCEPT !.outcome = "threw", !.error = "notfound"]
       ELSE IF HasCleanup(plugin.class) /\ cleanupThrows THEN
           /\ plugins' = MapDelete(plugins, name)
           /\ lastCall' = [call EXCEPT !.class = plugin.class, !.id = plugin.id,
                                       !.mode = plugin.mode, !.logged = {name},
                                       !.raised = {Call(plugin.id, "cleanup")},
                                       !.calls = <<Call(plugin.id, "cleanup")>>]
       ELSE
           /\ plugins' = MapDelete(plugins, name)
           /\ lastCall' = [call EXCEPT !.class = plugin.class, !.id = plugin.id,
                                       !.mode = plugin.mode,
                                       !.calls = IF HasCleanup(plugin.class)
                                                 THEN <<Call(plugin.id, "cleanup")>>
                                                 ELSE << >>]

\* unregisterPlugin(name); cleanupThrows: the plugin's cleanup() rejects.
unregisterPlugin(name, cleanupThrows) ==
    /\ UNCHANGED <<registering, instance, http>>
    /\ UNCHANGED <<serverTools, defaultMode, nextId, sweeping>>
    /\ LET plugin == getPlugin(name)
           call == [CallRecord("unregisterPlugin", [cleanupThrows |-> cleanupThrows])
                    EXCEPT !.name = name]
       IN
       IF ~hasPlugin(name) THEN
           /\ UNCHANGED plugins
           /\ lastCall' = [call EXCEPT !.outcome = "threw", !.error = "notfound"]
       ELSE IF HasCleanup(plugin.class) /\ cleanupThrows THEN
           /\ UNCHANGED plugins
           /\ lastCall' = [call EXCEPT !.class = plugin.class, !.id = plugin.id,
                                       !.mode = plugin.mode,
                                       !.outcome = "threw", !.error = "cleanup",
                                       !.raised = {Call(plugin.id, "cleanup")},
                                       !.calls = <<Call(plugin.id, "cleanup")>>]
       ELSE
           /\ plugins' = MapDelete(plugins, name)
           /\ lastCall' = [call EXCEPT !.class = plugin.class, !.id = plugin.id,
                                       !.mode = plugin.mode,
                                       !.calls = IF HasCleanup(plugin.class)
                                                 THEN <<Call(plugin.id, "cleanup")>>
                                                 ELSE << >>]

\* Mutation: no try/catch around plugin.cleanup(); the sweep ends at the
\* first cleanup() that rejects.
RECURSIVE CleanupSweep_StopsAtThrow(_, _, _, _)
CleanupSweep_StopsAtThrow(map, i, throwers, done) ==
    IF i > Len(map) THEN done
    ELSE IF ~HasCleanup(map[i].class)
         THEN CleanupSweep_StopsAtThrow(map, i + 1, throwers, done)
    ELSE IF map[i].name \in throwers
         THEN [calls |-> Append(done.calls, Call(map[i].id, "cleanup")),
               logged |-> done.logged]
    ELSE CleanupSweep_StopsAtThrow(map, i + 1, throwers,
                      [calls |-> Append(done.calls, Call(map[i].id, "cleanup")),
                       logged |-> done.logged])

\* The sweep of PluginRegistry.cleanup() over the entries from the i-th on:
\* the cleanup() calls it makes and the plugins it logs an error for.
\* throwers: the plugins whose cleanup() rejects.
RECURSIVE CleanupSweep(_, _, _, _)
CleanupSweep(map, i, throwers, done) ==
    IF i > Len(map) THEN done
    ELSE IF ~HasCleanup(map[i].class) THEN CleanupSweep(map, i + 1, throwers, done)
    ELSE CleanupSweep(map, i + 1, throwers,
                      [calls |-> Append(done.calls, Call(map[i].id, "cleanup")),
                       logged |-> IF map[i].name \in throwers
                                  THEN done.logged \cup {map[i].name}
                                  ELSE done.logged])

\* PluginRegistry.cleanup()
cleanup(throwers) ==
    /\ UNCHANGED <<registering, instance, http>>
    /\ UNCHANGED <<serverTools, defaultMode, nextId, sweeping>>
    /\ plugins' = << >>
    /\ LET sweep == CleanupSweep(plugins, 1, throwers, [calls |-> << >>, logged |-> {}])
       IN lastCall' = [CallRecord("cleanup", [throwers |-> throwers])
                       EXCEPT !.calls = sweep.calls, !.logged = sweep.logged,
                              !.raised = {Call(Entry(n).id, "cleanup") : n \in sweep.logged}]

\* Mutation: a plugin without healthCheck counts as unhealthy.
HealthResult_MissingIsFalse(c, does) ==
    IF ~HasHealthCheck(c) THEN FALSE
    ELSE IF does = "throws" THEN FALSE
    ELSE does = "true"

\* results[name] of healthCheckAll for a plugin of class c whose
\* healthCheck() does what `does` says ("true", "false" or "throws").
HealthResult(c, does) ==
    IF ~HasHealthCheck(c) THEN TRUE
    ELSE IF does = "throws" THEN FALSE
    ELSE does = "true"

\* The sweep of healthCheckAll over the entries from the i-th on.
RECURSIVE HealthSweep(_, _, _, _)
HealthSweep(map, i, behaviour, done) ==
    IF i > Len(map) THEN done
    ELSE LET e == map[i]
             called == HasHealthCheck(e.class)
         IN HealthSweep(map, i + 1, behaviour,
                [calls |-> IF called THEN Append(done.calls, Call(e.id, "healthCheck"))
                           ELSE done.calls,
                 logged |-> IF called /\ behaviour[e.name] = "throws"
                            THEN done.logged \cup {e.name} ELSE done.logged,
                 results |-> [n \in DOMAIN done.results \cup {e.name} |->
                                 IF n = e.name THEN HealthResult(e.class, behaviour[e.name])
                                 ELSE done.results[n]]])

\* PluginRegistry.healthCheckAll(); behaviour[n]: what the healthCheck() of
\* plugin n does.
healthCheckAll(behaviour) ==
    /\ UNCHANGED <<registering, instance, http>>
    /\ UNCHANGED <<plugins, serverTools, defaultMode, nextId, sweeping>>
    /\ LET sweep == HealthSweep(plugins, 1, behaviour,
                                [calls |-> << >>, logged |-> {}, results |-> NoResults])
       IN lastCall' = [CallRecord("healthCheckAll", [behaviour |-> behaviour])
                       EXCEPT !.calls = sweep.calls, !.logged = sweep.logged,
                              !.raised = {Call(Entry(n).id, "healthCheck") : n \in sweep.logged},
                              !.returns = "results", !.results = sweep.results]

\* Mutation: getPlugin takes the plugin out of the map.
lookup_Evicts(name) ==
    /\ UNCHANGED <<registering, instance, http>>
    /\ UNCHANGED <<serverTools, defaultMode, nextId, sweeping>>
    /\ plugins' = MapDelete(plugins, name)
    /\ lastCall' = [CallRecord("lookup", [name |-> name])
                    EXCEPT !.name = name,
                           !.returns = [hasPlugin |-> hasPlugin(name),
                                        getPlugin |-> getPlugin(name),
                                        getAllPlugins |-> getAllPlugins]]

\* The read accessors, called one after the other: hasPlugin(name),
\* getPlugin(name) and getAllPlugins().
lookup(name) ==
    /\ UNCHANGED <<registering, instance, http>>
    /\ UNCHANGED <<plugins, serverTools, defaultMode, nextId, sweeping>>
    /\ lastCall' = [CallRecord("lookup", [name |-> name])
                    EXCEPT !.name = name,
                           !.returns = [hasPlugin |-> hasPlugin(name),
                                        getPlugin |-> getPlugin(name),
                                        getAllPlugins |-> getAllPlugins]]

---------------------------------------------------------------------------
(* The calls a behaviour is made of *)

\* Only the constructors of the database plugins read config.mode and a
\* mode environment variable.
ModeInputsOf(c) ==
    CASE c = "MysqlPlugin" -> MysqlModeInputs
      [] c \in DatabasePlugins \ {"MysqlPlugin"} -> ModeInputs
      [] OTHER -> {NoValue}

\* How the plugin's lifecycle calls end: initialize rejects, or the server
\* rejects the throwAt-th tool of register(), or neither.
Faults(c) == {<<TRUE, 0>>} \cup {<<FALSE, k>> : k \in 0..Len(ToolsOf(c))}

NextRegister ==
    \E c \in PluginClasses :
        \E configMode \in ModeInputsOf(c), modeFromEnv \in ModeInputsOf(c), fault \in Faults(c) :
            registerPlugin(c, configMode, modeFromEnv, fault[1], fault[2])

\* The constructor of a database plugin always sets metadata.mode, so its
\* register() does the same with and without the registry.
NextDriveDirectly ==
    \E c \in PluginBaseClasses \ DatabasePlugins :
        \E configMode \in ModeInputsOf(c), modeFromEnv \in ModeInputsOf(c), fault \in Faults(c) :
            driveDirectly(c, configMode, modeFromEnv, fault[1], fault[2])

NextUnregister ==
    \E name \in PluginNames, cleanupThrows \in BOOLEAN : unregisterPlugin(name, cleanupThrows)

NextCleanup ==
    \E throwers \in SUBSET {n \in Keys : HasCleanup(Entry(n).class)} : cleanup(throwers)

NextHealthCheckAll ==
    \E behaviour \in [{n \in Keys : HasHealthCheck(Entry(n).class)} -> {"true", "false", "throws"}] :
        healthCheckAll(behaviour)

NextLookup == \E name \in PluginNames : lookup(name)

Next ==
    \/ NextRegister
    \/ NextDriveDirectly
    \/ NextUnregister
    \/ NextCleanup
    \/ NextHealthCheckAll
    \/ NextLookup

Spec == Init /\ [][Next]_vars

---------------------------------------------------------------------------
(* The sweeps of cleanup() and healthCheckAll(), one step at a time *)

\* The lifecycle method a sweep calls on each plugin.
SweepMethod(op) == IF op = "cleanup" THEN "cleanup" ELSE "healthCheck"

\* The plugin of class c has the method the sweep calls.
HasSweepMethod(op, c) == IF op = "cleanup" THEN HasCleanup(c) ELSE HasHealthCheck(c)

\* How a plugin's cleanup() / healthCheck() promise can settle.
Settlements(op) == IF op = "cleanup" THEN {"resolves", "throws"}
                   ELSE {"true", "false", "throws"}

\* cleanup() or healthCheckAll() is entered: the for loop is at the first
\* entry of the map.
sweepBegin(op) ==
    /\ UNCHANGED <<registering, instance, http>>
    /\ sweeping = NoSweep
    /\ sweeping' = [op |-> op, next |-> 1, inFlight |-> {}]
    /\ lastCall' = [CallRecord(op, << >>)
                    EXCEPT !.returns = IF op = "healthCheckAll" THEN "results" ELSE "void"]
    /\ UNCHANGED <<plugins, serverTools, defaultMode, nextId>>

\* Mutation: the plugin's promise is not awaited; the loop goes on to the
\* next entry while the call is in flight.
sweepCall_NoAwait ==
    /\ UNCHANGED <<registering, instance, http>>
    /\ sweeping.op # "none"
    /\ sweeping.next <= Len(plugins)
    /\ LET e == plugins[sweeping.next]
       IN IF HasSweepMethod(sweeping.op, e.class) THEN
              /\ sweeping' = [sweeping EXCEPT !.next = @ + 1, !.inFlight = @ \cup {e.id}]
              /\ lastCall' = [lastCall EXCEPT
                                 !.calls = Append(@, Call(e.id, SweepMethod(sweeping.op)))]
          ELSE
              /\ sweeping' = [sweeping EXCEPT !.next = @ + 1]
              /\ lastCall' = IF sweeping.op = "cleanup" THEN lastCall
                             ELSE [lastCall EXCEPT !.results =
                                      [n \in DOMAIN @ \cup {e.name} |->
                                          IF n = e.name THEN TRUE ELSE @[n]]]
    /\ UNCHANGED <<plugins, serverTools, defaultMode, nextId>>

\* One iteration of the for loop: `await plugin.cleanup()` or
\* `await plugin.healthCheck()` on the next entry, or nothing to await when
\* the plugin has no such method.  The loop is here only when the await of
\* the iteration before has returned.
sweepCall ==
    /\ UNCHANGED <<registering, instance, http>>
    /\ sweeping.op # "none"
    /\ sweeping.inFlight = {}
    /\ sweeping.next <= Len(plugins)
    /\ LET e == plugins[sweeping.next]
       IN IF HasSweepMethod(sweeping.op, e.class) THEN
              /\ sweeping' = [sweeping EXCEPT !.next = @ + 1, !.inFlight = @ \cup {e.id}]
              /\ lastCall' = [lastCall EXCEPT
                                 !.calls = Append(@, Call(e.id, SweepMethod(sweeping.op)))]
          ELSE
              /\ sweeping' = [sweeping EXCEPT !.next = @ + 1]
              /\ lastCall' = IF sweeping.op = "cleanup" THEN lastCall
                             ELSE [lastCall EXCEPT !.results =
                                      [n \in DOMAIN @ \cup {e.name} |->
                                          IF n = e.name THEN TRUE ELSE @[n]]]
    /\ UNCHANGED <<plugins, serverTools, defaultMode, nextId>>

\* The plugin stored with identity id.
EntryOf(id) == plugins[CHOOSE i \in 1..Len(plugins) : plugins[i].id = id]

\* Mutation: no try/catch in the loop; a cleanup() that rejects ends the
\* sweep before this.plugins.clear().
sweepSettle_RejectionEndsSweep(id, does) ==
    /\ UNCHANGED <<registering, instance, http>>
    /\ id \in sweeping.inFlight
    /\ does \in Settlements(sweeping.op)
    /\ sweeping' = IF does = "throws" /\ sweeping.op = "cleanup" THEN NoSweep
                   ELSE [sweeping EXCEPT !.inFlight = @ \ {id}]
    /\ LET e == EntryOf(id)
           call == Call(id, SweepMethod(sweeping.op))
       IN lastCall' = [lastCall EXCEPT
             !.outcome = IF does = "throws" /\ sweeping.op = "cleanup" THEN "threw" ELSE @,
             !.raised = IF does = "throws" THEN @ \cup {call} ELSE @,
             !.results = IF sweeping.op = "cleanup" THEN @
                         ELSE [n \in DOMAIN @ \cup {e.name} |->
                                  IF n = e.name THEN HealthResult(e.class, does) ELSE @[n]]]
    /\ UNCHANGED <<plugins, serverTools, defaultMode, nextId>>

\* The awaited promise of plugin id settles: it resolves, or it rejects and
\* the catch block logs the error (and healthCheckAll records false).
sweepSettle(id, does) ==
    /\ UNCHANGED <<registering, instance, http>>
    /\ id \in sweeping.inFlight
    /\ does \in Settlements(sweeping.op)
    /\ sweeping' = [sweeping EXCEPT !.inFlight = @ \ {id}]
    /\ LET e == EntryOf(id)
           call == Call(id, SweepMethod(sweeping.op))
       IN lastCall' = [lastCall EXCEPT
             !.raised = IF does = "throws" THEN @ \cup {call} ELSE @,
             !.logged = IF does = "throws" THEN @ \cup {e.name} ELSE @,
             !.results = IF sweeping.op = "cleanup" THEN @
                         ELSE [n \in DOMAIN @ \cup {e.name} |->
                                  IF n = e.name THEN HealthResult(e.class, does) ELSE @[n]]]
    /\ UNCHANGED <<plugins, serverTools, defaultMode, nextId>>

\* The loop is over: cleanup() clears the map, healthCheckAll() returns
\* its results.
sweepReturn ==
    /\ UNCHANGED <<registering, instance, http>>
    /\ sweeping.op # "none"
    /\ sweeping.next > Len(plugins)
    /\ sweeping.inFlight = {}
    /\ sweeping' = NoSweep
    /\ plugins' = IF sweeping.op = "cleanup" THEN << >> ELSE plugins
    /\ UNCHANGED <<serverTools, defaultMode, nextId, lastCall>>

\* The registry's caller does not start a call while a sweep is running.
NextRegisterIdle == sweeping = NoSweep /\ NextRegister

NextSweepBegin == \E op \in {"cleanup", "healthCheckAll"} : sweepBegin(op)

NextSweepSettle ==
    \E id \in sweeping.inFlight : \E does \in Settlements(sweeping.op) : sweepSettle(id, does)

NextSweep ==
    \/ NextRegisterIdle
    \/ NextSweepBegin
    \/ sweepCall
    \/ NextSweepSettle
    \/ sweepReturn

\* Every promise a plugin returned settles, and the event loop runs what is
\* ready to run.
SpecSweep ==
    /\ Init
    /\ [][NextSweep]_vars
    /\ WF_vars(sweepCall)
    /\ WF_vars(NextSweepSettle)
    /\ WF_vars(sweepReturn)

---------------------------------------------------------------------------
(* One database plugin instance: its client or pool, and its own methods *)

\* The plugins that hold a client (Redis, MongoDB) or a pool.
ClientClasses ==
    {"RedisPlugin", "PostgresPlugin", "MysqlPlugin", "SqlServerPlugin", "MongoDBPlugin"}

\* Number of cleanup() calls on the instance.
MaxCleanups == 2

\* JavaScript strings, as the sequences of their characters.
QueryText ==
    [select1 |-> <<"s", "e", "l", "e", "c", "t", " ", "1">>,
     paddedSelect |-> <<" ", " ", "S", "E", "L", "E", "C", "T", " ", "1">>,
     tabWith |-> <<"\t", "W", "i", "t", "h", " ", "x">>,
     deleteFrom |-> <<"d", "e", "l", "e", "t", "e", " ", "t">>,
     dropUpper |-> <<"D", "R", "O", "P", " ", "t">>,
     empty |-> <<>>,
     blank |-> <<" ">>,
     parenSelect |-> <<"(", "s", "e", "l", "e", "c", "t", " ", "1", ")">>,
     dropThenSelect |-> <<"d", "r", "o", "p", " ", "t", ";", "s", "e", "l", "e", "c", "t", " ", "1">>,
     showTables |-> <<"s", "h", "o", "w", " ", "t", "a", "b", "l", "e", "s">>,
     selectInto |-> <<"S", "E", "L", "E", "C", "T", " ", "1", " ", "I", "N", "T", "O", " ", "t">>]

Queries == DOMAIN QueryText

\* String.prototype.toLowerCase, on the letters the queries are made of.
LowerOf ==
    [A |-> "a", C |-> "c", D |-> "d", E |-> "e", H |-> "h", I |-> "i", L |-> "l",
     N |-> "n", O |-> "o", P |-> "p", R |-> "r", S |-> "s", T |-> "t", W |-> "w"]

toLowerCase(str) ==
    [i \in 1..Len(str) |-> IF str[i] \in DOMAIN LowerOf THEN LowerOf[str[i]] ELSE str[i]]

WhiteSpace == {" ", "\t", "\n"}

\* String.prototype.trim
RECURSIVE trim(_)
trim(str) ==
    IF str = << >> THEN str
    ELSE IF Head(str) \in WhiteSpace THEN trim(Tail(str))
    ELSE IF str[Len(str)] \in WhiteSpace THEN trim(SubSeq(str, 1, Len(str) - 1))
    ELSE str

\* String.prototype.startsWith
startsWith(str, prefix) ==
    /\ Len(prefix) <= Len(str)
    /\ SubSeq(str, 1, Len(prefix)) = prefix

\* The statement prefixes the read tool of class c lets through.
ReadPrefixes(c) ==
    CASE c = "PostgresPlugin" ->
            {<<"s", "e", "l", "e", "c", "t">>, <<"w", "i", "t", "h">>}
      [] c = "MysqlPlugin" ->
            {<<"s", "e", "l", "e", "c", "t">>, <<"w", "i", "t", "h">>,
             <<"s", "h", "o", "w">>, <<"d", "e", "s", "c", "r", "i", "b", "e">>,
             <<"e", "x", "p", "l", "a", "i", "n">>}
      [] c = "SqlServerPlugin" ->
            {<<"s", "e", "l", "e", "c", "t">>, <<"w", "i", "t", "h">>,
             <<"e", "x", "e", "c", " ", "s", "p", "_", "h", "e", "l", "p">>,
             <<"e", "x", "e", "c", " ", "s", "p", "_", "c", "o", "l", "u", "m", "n", "s">>}
      [] OTHER -> {}

\* Mutation: the validation looks for the keyword anywhere in the query.
PassesValidation_Includes(c, query) ==
    LET trimmedQuery == toLowerCase(trim(query))
        includes(str, part) ==
            \E i \in 1..(Len(str) - Len(part) + 1) :
                SubSeq(str, i, i + Len(part) - 1) = part
    IN \E prefix \in ReadPrefixes(c) : includes(trimmedQuery, prefix)

\* `const trimmedQuery = query.trim().toLowerCase()` and the startsWith
\* tests of the read tool of class c.
PassesValidation(c, query) ==
    LET trimmedQuery == toLowerCase(trim(query))
    IN \E prefix \in ReadPrefixes(c) : startsWith(trimmedQuery, prefix)

\* The read tools of Redis and MongoDB take no statement.
ValidatesQuery(c) == c \in {"PostgresPlugin", "MysqlPlugin", "SqlServerPlugin"}

\* initialize assigns the client or pool before the connect it awaits;
\* the SQL Server plugin assigns the pool the awaited connect returns.
AssignsBeforeConnect(c) == c # "SqlServerPlugin"

\* cleanup() of the MongoDB plugin sets client and db to null.
ForgetsClient(c) == c = "MongoDBPlugin"

\* The plugins that override PluginBase.healthCheck.
OverridesHealthCheck(c) == c # "MongoDBPlugin"

\* The record of a call of method that did nothing yet, on an instance
\* whose client or pool was clientBefore when the call began.
BlankRecord(method, input, clientBefore) ==
    [method |-> method, input |-> input, threw |-> FALSE, returns |-> FALSE,
     isError |-> FALSE, message |-> NoValue, closed |-> 0, queried |-> 0,
     clientBefore |-> clientBefore]

MethodRecord(method, input) == BlankRecord(method, input, instance.client)

\* new PluginClass(config); database: config.database is given (MongoDB).
NewInstance(c, database) ==
    [class |-> c, client |-> "null", db |-> "null", database |-> database,
     initialized |-> FALSE, cleanups |-> 0, closes |-> 0,
     last |-> BlankRecord("constructor", NoValue, "null")]

\* The rest of the program, untouched by the methods of one instance.
OutsideInstance == <<plugins, serverTools, defaultMode, nextId, lastCall, sweeping,
                     registering, http>>

\* How the connection attempt of initialize ends.
InitializeOutcomes == {"ok", "connectThrows", "testThrows"}

\* plugin.initialize(context): create the client or pool, connect, run the
\* test command; a failure is logged and rethrown.
pluginInitialize(outcome) ==
    /\ instance # NoInstance
    /\ ~instance.initialized
    /\ LET c         == instance.class
           connected == outcome # "connectThrows"
       IN instance' =
            [instance EXCEPT
               !.initialized = TRUE,
               !.client = IF AssignsBeforeConnect(c) \/ connected
                          THEN "object" ELSE "null",
               !.db     = IF c = "MongoDBPlugin" /\ connected /\ instance.database
                          THEN "object" ELSE "null",
               !.last   = [MethodRecord("initialize", outcome) EXCEPT
                             !.threw = outcome # "ok"]]
    /\ UNCHANGED OutsideInstance

\* plugin.cleanup(): `if (this.client) await this.client.quit()` (end, close);
\* only the MongoDB plugin then sets client and db to null.
pluginCleanup(closeThrows) ==
    /\ instance # NoInstance
    /\ instance.cleanups < MaxCleanups
    /\ LET closing == instance.client # "null"
           forgets == ForgetsClient(instance.class) /\ closing /\ ~closeThrows
       IN instance' =
            [instance EXCEPT
               !.cleanups = @ + 1,
               !.closes   = IF closing THEN @ + 1 ELSE @,
               !.client   = IF forgets THEN "null" ELSE @,
               !.db       = IF forgets THEN "null" ELSE @,
               !.last     = [MethodRecord("cleanup", IF closeThrows THEN "throws" ELSE "ok") EXCEPT
                               !.threw  = closing /\ closeThrows,
                               !.closed = IF closing THEN 1 ELSE 0]]
    /\ UNCHANGED OutsideInstance

\* What the probe command (ping, SELECT 1) of healthCheck does.
Probes == {"expected", "unexpected", "throws"}

\* Mutation: healthCheck without its try/catch.
pluginHealthCheck_NoTryCatch(probe) ==
    /\ instance # NoInstance
    /\ LET call == MethodRecord("healthCheck", probe)
       IN instance' =
            [instance EXCEPT !.last =
               IF ~OverridesHealthCheck(instance.class)
               THEN [call EXCEPT !.returns = TRUE]
               ELSE IF instance.client = "null"
               THEN [call EXCEPT !.returns = FALSE]
               ELSE [call EXCEPT !.queried = 1,
                                 !.threw   = probe = "throws",
                                 !.returns = probe = "expected"]]
    /\ UNCHANGED OutsideInstance

\* plugin.healthCheck(): false without a client or pool, else the probe's
\* answer compared with the expected one; the catch returns false.
\* The MongoDB plugin inherits PluginBase.healthCheck, which returns true.
pluginHealthCheck(probe) ==
    /\ instance # NoInstance
    /\ LET call == MethodRecord("healthCheck", probe)
       IN instance' =
            [instance EXCEPT !.last =
               IF ~OverridesHealthCheck(instance.class)
               THEN [call EXCEPT !.returns = TRUE]
               ELSE IF instance.client = "null"
               THEN [call EXCEPT !.returns = FALSE]
               ELSE [call EXCEPT !.queried = 1,
                                 !.returns = probe = "expected"]]
    /\ UNCHANGED OutsideInstance

\* The arguments of the read tool of class c: the statement of the SQL
\* plugins, the `database` argument of mongodb_find, the key of redis_get.
ToolInputs(c) ==
    IF ValidatesQuery(c) THEN Queries
    ELSE IF c = "MongoDBPlugin" THEN {NoValue, "otherDb"}
    ELSE {"key"}

\* The result the catch block of a handler returns for a thrown error.
ErrorResult(call, message) ==
    [call EXCEPT !.isError = TRUE, !.message = message]

\* The handler past its client check: validation, then the command.
RunTool(call, input, storeThrows) ==
    LET c == instance.class
    IN IF ValidatesQuery(c) /\ ~PassesValidation(c, QueryText[input])
       THEN ErrorResult(call, "only read queries")
       ELSE IF c = "MongoDBPlugin" /\ input = NoValue /\ instance.db = "null"
       THEN ErrorResult(call, "no database specified")
       ELSE IF storeThrows
       THEN ErrorResult([call EXCEPT !.queried = 1], "store error")
       ELSE [call EXCEPT !.queried = 1]

\* Mutation: the handler does not test its client or pool; using null
\* throws a TypeError, which the catch block turns into the result.
readToolHandler_NoNullCheck(input, storeThrows) ==
    /\ instance # NoInstance
    /\ input \in ToolInputs(instance.class)
    /\ LET call == MethodRecord("handler", input)
           ran  == RunTool(call, input, storeThrows)
       IN instance' =
            [instance EXCEPT !.last =
               IF instance.client = "null" /\ ran.queried = 1
               THEN ErrorResult(call, "TypeError")
               ELSE ran]
    /\ UNCHANGED OutsideInstance

\* The handler of redis_get, postgres_query, mysql_query, sqlserver_query
\* and mongodb_find: everything runs inside try/catch, and a null client
\* or pool throws '... not initialized' first.
readToolHandler(input, storeThrows) ==
    /\ instance # NoInstance
    /\ input \in ToolInputs(instance.class)
    /\ LET call == MethodRecord("handler", input)
       IN instance' =
            [instance EXCEPT !.last =
               IF instance.client = "null"
               THEN ErrorResult(call, "not initialized")
               ELSE RunTool(call, input, storeThrows)]
    /\ UNCHANGED OutsideInstance

NextPluginInitialize == \E outcome \in InitializeOutcomes : pluginInitialize(outcome)

NextPluginCleanup == \E closeThrows \in BOOLEAN : pluginCleanup(closeThrows)

NextPluginHealthCheck == \E probe \in Probes : pluginHealthCheck(probe)

NextReadTool ==
    \E input \in Queries \cup {NoValue, "otherDb", "key"}, storeThrows \in BOOLEAN :
        readToolHandler(input, storeThrows)

NextPlugin ==
    \/ NextPluginInitialize
    \/ NextPluginCleanup
    \/ NextPluginHealthCheck
    \/ NextReadTool

\* A plugin instance just constructed, outside any registry.
InitPlugin ==
    /\ plugins = << >>
    /\ serverTools = {}
    /\ defaultMode = PluginMode.READONLY
    /\ nextId = 1
    /\ lastCall = CallRecord("none", << >>)
    /\ sweeping = NoSweep
    /\ registering = << >>
    /\ http = NoHttp
    /\ \E c \in ClientClasses, database \in BOOLEAN :
         /\ c # "MongoDBPlugin" => ~database
         /\ instance = NewInstance(c, database)

SpecPlugin == InitPlugin /\ [][NextPlugin]_vars

---------------------------------------------------------------------------
(* registerPlugin, one await at a time: calls started before an earlier *)
(* call has settled                                                     *)

\* Map.prototype.set: a present key keeps its place and gets the new value.
MapSet(map, entry) ==
    IF \E i \in 1..Len(map) : map[i].name = entry.name
    THEN [i \in 1..Len(map) |-> IF map[i].name = entry.name THEN entry ELSE map[i]]
    ELSE Append(map, entry)

\* The rest of the program, untouched by registerPlugin.
OutsideRegister == <<defaultMode, lastCall, sweeping, instance, http>>

\* A registerPlugin call: its instance, and the await it is suspended at
\* ("initialize", "register") or how it settled ("resolved", "rejected").
RegisterCall(id, PluginClass, mode, at) ==
    [id |-> id, class |-> PluginClass, name |-> MetadataName(PluginClass),
     mode |-> mode, at |-> at]

\* registerPlugin up to `await plugin.initialize(context)`: the instance is
\* constructed, a name that is already a key rejects the call, the default
\* mode is applied.
registerPluginStart(PluginClass, configMode) ==
    /\ nextId <= MaxInstances
    /\ nextId' = nextId + 1
    /\ LET ctorMode == ConstructorMode(PluginClass, configMode, NoValue)
           mode == IF ctorMode = NoValue THEN defaultMode ELSE ctorMode
       IN registering' =
            Append(registering,
                   IF hasPlugin(MetadataName(PluginClass))
                   THEN RegisterCall(nextId, PluginClass, ctorMode, "rejected")
                   ELSE RegisterCall(nextId, PluginClass, mode, "initialize"))
    /\ UNCHANGED <<plugins, serverTools>>
    /\ UNCHANGED OutsideRegister

\* initialize has settled: a rejection is logged and rethrown; otherwise
\* plugin.register(context) runs, and the call awaits what it returned.
registerPluginRegister(i, initThrows, throwAt) ==
    /\ i \in 1..Len(registering)
    /\ registering[i].at = "initialize"
    /\ LET call == registering[i]
           run  == Register(call.class, call.mode, throwAt)
       IN IF initThrows
          THEN /\ registering' = [registering EXCEPT ![i].at = "rejected"]
               /\ UNCHANGED serverTools
          ELSE /\ registering' =
                    [registering EXCEPT
                       ![i].at = IF run.threw THEN "rejected" ELSE "register"]
               /\ serverTools' = serverTools \cup run.published
    /\ UNCHANGED <<plugins, nextId>>
    /\ UNCHANGED OutsideRegister

\* `this.plugins.set(plugin.metadata.name, plugin)`, and the call resolves.
registerPluginStore(i) ==
    /\ i \in 1..Len(registering)
    /\ registering[i].at = "register"
    /\ plugins' = MapSet(plugins, [name |-> registering[i].name, id |-> registering[i].id,
                                   class |-> registering[i].class,
                                   mode |-> registering[i].mode])
    /\ registering' = [registering EXCEPT ![i].at = "resolved"]
    /\ UNCHANGED <<serverTools, nextId>>
    /\ UNCHANGED OutsideRegister

NextRegisterStart ==
    \E c \in PluginClasses :
        \E configMode \in ModeInputsOf(c) : registerPluginStart(c, configMode)

NextRegisterRegister ==
    \E i \in 1..Len(registering) :
        \E fault \in Faults(registering[i].class) :
            registerPluginRegister(i, fault[1], fault[2])

NextRegisterStore == \E i \in 1..Len(registering) : registerPluginStore(i)

NextRace ==
    \/ NextRegisterStart
    \/ NextRegisterRegister
    \/ NextRegisterStore

SpecRace == Init /\ [][NextRace]_vars

---------------------------------------------------------------------------
(* The Redis HTTP server: sessions and their transports *)

\* Number of transports the server creates.
MaxSessions == 2

\* What sessionIdGenerator (randomUUID) gives the k-th transport.
UUIDs == <<"uuid-1", "uuid-2", "uuid-3", "uuid-4">>

\* A session ID no transport was given.
UnknownSession == "uuid-x"

Methods == {"GET", "POST", "DELETE", "OPTIONS"}

\* The X-Session-Id header of a request: absent, empty, or a session ID.
SessionInputs == {NoValue, "", UnknownSession} \cup {UUIDs[k] : k \in 1..MaxSessions}

\* The sessionId query parameter of a request: absent, or a session ID.
QueryInputs == {NoValue, UnknownSession, UUIDs[1]}

\* `req.headers['x-session-id'] || searchParams.get('sessionId') || undefined`
SessionIdOf(header, query) ==
    IF header \notin {NoValue, ""} THEN header
    ELSE IF query \notin {NoValue, ""} THEN query
    ELSE NoValue

\* Where handling a request fails: reading the body or the URL, the
\* server's connect, the transport's handleRequest, or nowhere.
RequestFaults == {"none", "read", "connect", "handle"}

\* The record of one request before anything was done for it.
RequestRecord(method, header, query, transports) ==
    [method |-> method, header |-> header, query |-> query,
     status |-> "none", readThrew |-> FALSE, created |-> 0, connects |-> 0,
     handled |-> FALSE, before |-> transports]

\* The rest of the program, untouched by the HTTP server.
OutsideHttp == <<plugins, serverTools, defaultMode, nextId, lastCall, sweeping,
                 registering, instance>>

\* Mutation: the handler does not test whether the session ID is a key of
\* the transports map.
httpRequest_NoSessionCheck(method, header, query, fault, assigned) ==
    /\ http.listening
    /\ LET sessionId == SessionIdOf(header, query)
           request   == RequestRecord(method, header, query, http.transports)
       IN
       IF method = "OPTIONS" THEN
           http' = [http EXCEPT !.last = [request EXCEPT !.status = "200"]]
       ELSE IF fault = "read" THEN
           http' = [http EXCEPT !.last = [request EXCEPT !.status = "500",
                                                         !.readThrew = TRUE]]
       ELSE IF sessionId \notin http.transports THEN
           /\ http.created < MaxSessions
           /\ http' = [http EXCEPT
                         !.created = @ + 1,
                         !.transports = IF assigned
                                        THEN @ \cup {UUIDs[http.created + 1]} ELSE @,
                         !.last = [request EXCEPT
                                     !.created = 1, !.connects = 1,
                                     !.handled = fault # "connect",
                                     !.status = IF fault = "none"
                                                THEN "transport" ELSE "500"]]
       ELSE
           http' = [http EXCEPT
                      !.last = [request EXCEPT
                                  !.handled = TRUE,
                                  !.status = IF fault = "handle"
                                             THEN "500" ELSE "transport"]]
    /\ UNCHANGED OutsideHttp

\* The request handler of the HTTP server.  fault: see RequestFaults;
\* assigned: the new transport has a sessionId when it is constructed.
httpRequest(method, header, query, fault, assigned) ==
    /\ http.listening
    /\ LET sessionId == SessionIdOf(header, query)
           request   == RequestRecord(method, header, query, http.transports)
       IN
       IF method = "OPTIONS" THEN
           http' = [http EXCEPT !.last = [request EXCEPT !.status = "200"]]
       ELSE IF fault = "read" THEN
           http' = [http EXCEPT !.last = [request EXCEPT !.status = "500",
                                                         !.readThrew = TRUE]]
       ELSE IF sessionId # NoValue /\ sessionId \notin http.transports THEN
           http' = [http EXCEPT !.last = [request EXCEPT !.status = "404"]]
       ELSE IF sessionId = NoValue THEN
           /\ http.created < MaxSessions
           /\ http' = [http EXCEPT
                         !.created = @ + 1,
                         !.transports = IF assigned
                                        THEN @ \cup {UUIDs[http.created + 1]} ELSE @,
                         !.last = [request EXCEPT
                                     !.created = 1, !.connects = 1,
                                     !.handled = fault # "connect",
                                     !.status = IF fault = "none"
                                                THEN "transport" ELSE "500"]]
       ELSE
           http' = [http EXCEPT
                      !.last = [request EXCEPT
                                  !.handled = TRUE,
                                  !.status = IF fault = "handle"
                                             THEN "500" ELSE "transport"]]
    /\ UNCHANGED OutsideHttp

\* onsessionclosed: `transports.delete(id)`, called by the transport of
\* session id.
onsessionclosed(id) ==
    /\ http.listening
    /\ id \in http.transports
    /\ http' = [http EXCEPT
                  !.transports = @ \ {id},
                  !.last = RequestRecord("onsessionclosed", id, NoValue, http.transports)]
    /\ UNCHANGED OutsideHttp

NextHttpRequest ==
    \E method \in Methods, header \in SessionInputs, query \in QueryInputs,
       fault \in RequestFaults, assigned \in BOOLEAN :
        httpRequest(method, header, query, fault, assigned)

NextSessionClosed == \E id \in SessionInputs : onsessionclosed(id)

NextHttp ==
    \/ NextHttpRequest
    \/ NextSessionClosed

\* main() of the Redis HTTP server: RedisPlugin is registered (its mode
\* from REDIS_MODE), then the server listens with no session yet.
InitHttp ==
    /\ \E modeFromEnv \in ModeInputs :
         LET mode == ConstructorMode("RedisPlugin", NoValue, modeFromEnv)
         IN /\ plugins = << [name |-> MetadataName("RedisPlugin"), id |-> 1,
                             class |-> "RedisPlugin", mode |-> mode] >>
            /\ serverTools = Register("RedisPlugin", mode, 0).published
    /\ defaultMode = PluginMode.READONLY
    /\ nextId = 2
    /\ lastCall = CallRecord("none", << >>)
    /\ sweeping = NoSweep
    /\ registering = << >>
    /\ instance = NoInstance
    /\ http = [listening |-> TRUE, transports |-> {}, created |-> 0,
               last |-> RequestRecord("none", NoValue, NoValue, {})]

SpecHttp == InitHttp /\ [][NextHttp]_vars

---------------------------------------------------------------------------
(* Properties *)

\* The name the last call was about was a key of the map when the call began.
WasRegistered == \E i \in 1..Len(lastCall.before) : lastCall.before[i].name = lastCall.name

\* The mode value the caller supplied, by the documented precedence: the
\* config key if present, else the environment variable.
SuppliedMode ==
    IF lastCall.input.configMode # NoValue THEN lastCall.input.configMode
    ELSE lastCall.input.modeFromEnv

C2_DocumentedReadonlyStringHidesWriteTools ==
    (/\ lastCall.op = "registerPlugin"
     /\ lastCall.class \in DatabasePlugins
     /\ lastCall.outcome = "ok"
     /\ SuppliedMode = "READONLY") =>
        /\ lastCall.published \cap WriteTools(lastCall.class) = {}
        /\ ReadTools(lastCall.class) \subseteq lastCall.published

\* C3: registerPlugin for a name already in the registry fails with the
\* duplicate error, calls neither initialize nor register on the new
\* instance, and leaves the map (keys and instances) as it was.
C3_DuplicateRejectedWithoutMutation ==
    (lastCall.op = "registerPlugin" /\ WasRegistered) =>
        /\ lastCall.outcome = "threw"
        /\ lastCall.error = "duplicate"
        /\ lastCall.calls = << >>
        /\ plugins = lastCall.before

C3_Witness ==
    /\ lastCall.op = "registerPlugin"
    /\ lastCall.error = "duplicate"
    /\ Len(plugins) = 1
    /\ plugins[1].name = lastCall.name
    /\ plugins[1].id # lastCall.id

\* C4: when registerPlugin fails because initialize or register threw, the
\* registry map after the call equals the map before it.
C4_FailedRegisterLeavesMap ==
    (lastCall.op = "registerPlugin" /\ lastCall.error \in {"initialize", "register"}) =>
        /\ lastCall.outcome = "threw"
        /\ plugins = lastCall.before
        /\ lastCall.name \notin Keys

C4_Witness ==
    /\ lastCall.op = "registerPlugin"
    /\ lastCall.error = "register"
    /\ lastCall.published # {}
    /\ Len(plugins) = 1

\* C5: after unregisterPlugin(n), whether it returned or threw, n is not in
\* the registry.
C5_UnregisterAlwaysRemoves ==
    lastCall.op = "unregisterPlugin" => lastCall.name \notin Keys

\* C6: PluginRegistry.cleanup() calls cleanup() once on every registered
\* plugin that has one, whichever of them throw, lets no exception escape,
\* and leaves the registry empty.
C6_CleanupSweepsAll ==
    lastCall.op = "cleanup" =>
        /\ lastCall.outcome = "ok"
        /\ plugins = << >>
        /\ \A i \in 1..Len(lastCall.before) :
              LET e == lastCall.before[i]
              IN Cardinality({k \in 1..Len(lastCall.calls) :
                                 lastCall.calls[k] = Call(e.id, "cleanup")})
                 = IF HasCleanup(e.class) THEN 1 ELSE 0
        /\ \A k \in 1..Len(lastCall.calls) :
              \E i \in 1..Len(lastCall.before) :
                 lastCall.calls[k] = Call(lastCall.before[i].id, "cleanup")

C6_Witness ==
    /\ lastCall.op = "cleanup"
    /\ Len(lastCall.before) = 2
    /\ Len(lastCall.calls) = 2
    /\ lastCall.before[1].name \in lastCall.input.throwers
    /\ plugins = << >>

\* The plugins a call's return value reports as failed.
ReturnedFailures ==
    IF lastCall.returns = "void" THEN {}
    ELSE {n \in DOMAIN lastCall.results : ~lastCall.results[n]}

C8_HealthCheckAllResults ==
    lastCall.op = "healthCheckAll" =>
        /\ lastCall.outcome = "ok"
        /\ lastCall.returns = "results"
        /\ DOMAIN lastCall.results = Keys
        /\ \A n \in Keys :
              lastCall.results[n] =
                 CASE Entry(n).class \notin PluginBaseClasses -> TRUE
                   [] Entry(n).class \in PluginBaseClasses
                      /\ lastCall.input.behaviour[n] = "throws" -> FALSE
                   [] OTHER -> lastCall.input.behaviour[n] = "true"

C8_Witness ==
    /\ lastCall.op = "healthCheckAll"
    /\ Len(plugins) = 2
    /\ \E n \in Keys : Entry(n).class = "BarePlugin" /\ lastCall.results[n]
    /\ \E n \in Keys : Entry(n).class # "BarePlugin"
                       /\ lastCall.input.behaviour[n] = "throws"
                       /\ ~lastCall.results[n]

\* C9: a tool declared with isWriteTool false or omitted is registered on
\* the server by every register() that completes, whatever the plugin's
\* mode (ReadOnly, Full, unset or any other value).
C9_ReadToolsAlwaysRegistered ==
    (lastCall.op \in {"registerPlugin", "driveDirectly"} /\ lastCall.outcome = "ok") =>
        /\ ReadTools(lastCall.class) \subseteq lastCall.published
        /\ ReadTools(lastCall.class) \subseteq serverTools

C9_Witness ==
    /\ lastCall.op = "registerPlugin"
    /\ lastCall.outcome = "ok"
    /\ lastCall.mode = PluginMode.READONLY
    /\ lastCall.class = "MyPlugin"
    /\ "my_tool" \in serverTools
    /\ "my_write_tool" \notin serverTools

\* C10: a database plugin given the mode value "full" (environment value,
\* or PluginMode.FULL as config.mode) ends up in Full mode, and a successful
\* registerPlugin leaves its read tools and its write tools on the server.
C10_FullValueGivesFullMode ==
    (/\ lastCall.op = "registerPlugin"
     /\ lastCall.class \in DatabasePlugins
     /\ lastCall.outcome = "ok"
     /\ SuppliedMode = "full") =>
        /\ lastCall.mode = PluginMode.FULL
        /\ AllTools(lastCall.class) \subseteq serverTools

\* C11: when a database plugin is given the documented mode string 'FULL'
\* (config key or environment variable), a successful registerPlugin leaves
\* every tool of the plugin, the write tools included, on the server.
C11_DocumentedFullStringRegistersAll ==
    (/\ lastCall.op = "registerPlugin"
     /\ lastCall.class \in DatabasePlugins
     /\ lastCall.outcome = "ok"
     /\ SuppliedMode = "FULL") =>
        /\ AllTools(lastCall.class) \subseteq lastCall.published
        /\ AllTools(lastCall.class) \subseteq serverTools

C11_Witness ==
    /\ lastCall.op = "registerPlugin"
    /\ lastCall.class = "RedisPlugin"
    /\ lastCall.outcome = "ok"
    /\ lastCall.input.configMode = NoValue
    /\ lastCall.input.modeFromEnv = "FULL"
    /\ {"redis_set", "redis_del"} \subseteq serverTools

\* C12: when a successful registerPlugin is followed by a successful
\* unregisterPlugin of the plugin it stored, the tools on the server are
\* again those that were there before the registerPlugin call.
C12_UnregisterRestoresServerTools ==
    [][(/\ lastCall.op = "registerPlugin"
        /\ lastCall.outcome = "ok"
        /\ lastCall'.op = "unregisterPlugin"
        /\ lastCall'.outcome = "ok"
        /\ lastCall'.id = lastCall.id) =>
           serverTools' = lastCall.toolsBefore]_vars

\* The mode a supplied or stored value names, whichever of the enum's keys
\* and values spells it.
ModeNamedBy(m) ==
    CASE m \in {"readonly", "READONLY"} -> PluginMode.READONLY
      [] m \in {"full", "FULL"} -> PluginMode.FULL
      [] OTHER -> m

\* The values that name a mode of the PluginMode enum.
ValidModes == {"readonly", "READONLY", "full", "FULL"}

\* C13: when config.mode and the mode environment variable of a database
\* plugin both carry a valid mode, the plugin's mode is the one config.mode
\* names; when config.mode is absent and the environment variable carries
\* a valid mode, it is the one the environment variable names.
C13_ConfigModeBeatsEnvironment ==
    (/\ lastCall.op = "registerPlugin"
     /\ lastCall.class \in DatabasePlugins) =>
        /\ (/\ lastCall.input.configMode \in ValidModes
            /\ lastCall.input.modeFromEnv \in ValidModes) =>
               ModeNamedBy(lastCall.mode) = ModeNamedBy(lastCall.input.configMode)
        /\ (/\ lastCall.input.configMode = NoValue
            /\ lastCall.input.modeFromEnv \in ValidModes) =>
               ModeNamedBy(lastCall.mode) = ModeNamedBy(lastCall.input.modeFromEnv)

\* C14: when neither config.mode nor a mode environment variable is
\* present, the plugin a successful registerPlugin stored has the
\* registry's defaultMode.
C14_NoModeGivesRegistryDefault ==
    (/\ lastCall.op = "registerPlugin"
     /\ lastCall.outcome = "ok"
     /\ lastCall.input.configMode = NoValue
     /\ lastCall.input.modeFromEnv = NoValue) =>
        /\ lastCall.mode = defaultMode
        /\ \E i \in 1..Len(plugins) :
              plugins[i].id = lastCall.id /\ plugins[i].mode = defaultMode

\* The positions of the calls of lifecycle method fn in the last call.
CallsOf(fn) == {k \in 1..Len(lastCall.calls) : lastCall.calls[k].fn = fn}

\* C15 as stated: every registerPlugin call invokes initialize exactly
\* once and register at most once, and invokes register only after
\* initialize and only when initialize did not reject.
C15_InitializeExactlyOnce ==
    lastCall.op = "registerPlugin" =>
        /\ Cardinality(CallsOf("initialize")) = 1
        /\ Cardinality(CallsOf("register")) <= 1
        /\ \A r \in CallsOf("register") :
              /\ \E k \in CallsOf("initialize") : k < r
              /\ lastCall.error # "initialize"

\* C15: a registerPlugin call rejected for a duplicate name invokes no
\* lifecycle method; every other registerPlugin call invokes initialize of
\* the new instance exactly once, first, and then register exactly once if
\* initialize did not reject and not at all if it did.
C15_LifecycleOrder ==
    lastCall.op = "registerPlugin" =>
        IF lastCall.error = "duplicate" THEN lastCall.calls = << >>
        ELSE IF lastCall.error = "initialize"
             THEN lastCall.calls = <<Call(lastCall.id, "initialize")>>
        ELSE lastCall.calls = <<Call(lastCall.id, "initialize"),
                                Call(lastCall.id, "register")>>

C15_Witness ==
    /\ lastCall.op = "registerPlugin"
    /\ lastCall.error = "initialize"
    /\ Len(lastCall.calls) = 1
    /\ Len(lastCall.before) >= 1
    /\ ~WasRegistered

\* The instances a sequence of lifecycle calls invoked cleanup() on.
CleanedBy(calls) == {calls[k].id : k \in {j \in 1..Len(calls) : calls[j].fn = "cleanup"}}

\* C16: the registry does not invoke cleanup() of an instance in a call
\* when the call before it invoked cleanup() of that instance.
C16_CleanupAtMostOncePerInstance ==
    [][CleanedBy(lastCall.calls) \cap CleanedBy(lastCall'.calls) = {}]_vars

\* C17: a call that publishes a tool declared with isWriteTool=true is on a
\* plugin whose mode is Full.
C17_WriteToolsOnlyInFullMode ==
    (/\ lastCall.op \in {"registerPlugin", "driveDirectly"}
     /\ lastCall.published \cap WriteTools(lastCall.class) # {}) =>
        ModeNamedBy(lastCall.mode) = PluginMode.FULL

\* C18: when the MySQL plugin is given the mode WRITEONLY (config key or
\* MYSQL_MODE), a successful registerPlugin leaves mysql_execute,
\* mysql_kill_query, mysql_optimize_table and mysql_analyze_table on the
\* server.
C18_MysqlWriteOnlyRegistersWriteTools ==
    (/\ lastCall.op = "registerPlugin"
     /\ lastCall.class = "MysqlPlugin"
     /\ lastCall.outcome = "ok"
     /\ SuppliedMode = "WRITEONLY") =>
        {"mysql_execute", "mysql_kill_query",
         "mysql_optimize_table", "mysql_analyze_table"} \subseteq serverTools

\* C19: no call changes the mode of a plugin instance that is stored in
\* the registry before and after the call.
C19_StoredModeNeverChanges ==
    [][\A i \in 1..Len(plugins) : \A j \in 1..Len(plugins') :
          plugins[i].id = plugins'[j].id => plugins[i].mode = plugins'[j].mode]_vars

C19_Witness ==
    /\ lastCall.op = "registerPlugin"
    /\ lastCall.outcome = "ok"
    /\ Len(plugins) = 2
    /\ plugins[1] = lastCall.before[1]
    /\ plugins[1].mode # plugins[2].mode

\* C20: unregisterPlugin of a name that is not a key of the map fails with
\* the not-found error, invokes no cleanup() and leaves the map as it was.
C20_UnregisterUnknownFails ==
    (lastCall.op = "unregisterPlugin" /\ ~WasRegistered) =>
        /\ lastCall.outcome = "threw"
        /\ lastCall.error = "notfound"
        /\ lastCall.calls = << >>
        /\ plugins = lastCall.before

C20_Witness ==
    /\ lastCall.op = "unregisterPlugin"
    /\ ~WasRegistered
    /\ lastCall.error = "notfound"
    /\ Len(plugins) >= 1

\* C21: when initialize or register threw during registerPlugin, or cleanup
\* threw during unregisterPlugin, the registry call rejects, and the error
\* it rejects with is the one that lifecycle call of the plugin threw.
C21_LifecycleErrorPropagates ==
    (/\ lastCall.op \in {"registerPlugin", "unregisterPlugin"}
     /\ lastCall.raised # {}) =>
        /\ lastCall.outcome = "threw"
        /\ \E r \in lastCall.raised :
              /\ lastCall.raised = {r}
              /\ r.id = lastCall.id
              /\ r.fn = lastCall.error
              /\ lastCall.calls[Len(lastCall.calls)] = r

C21_Witness ==
    /\ lastCall.op = "unregisterPlugin"
    /\ lastCall.raised = {Call(lastCall.id, "cleanup")}
    /\ lastCall.outcome = "threw"
    /\ lastCall.error = "cleanup"

\* The entries of the map the last call started from that are stored under
\* the name the call was about.
StoredBefore ==
    {lastCall.before[i] : i \in {j \in 1..Len(lastCall.before) :
                                    lastCall.before[j].name = lastCall.name}}

\* C22: the read accessors leave the registry map and the server's tools
\* as they were; hasPlugin(n) returns true exactly when n is a key of the
\* map, getPlugin(n) then returns the plugin stored under n and otherwise
\* undefined, and getAllPlugins returns the stored plugins.
C22_AccessorsArePure ==
    lastCall.op = "lookup" =>
        /\ plugins = lastCall.before
        /\ serverTools = lastCall.toolsBefore
        /\ lastCall.returns.hasPlugin = (StoredBefore # {})
        /\ IF StoredBefore # {}
           THEN StoredBefore = {lastCall.returns.getPlugin}
           ELSE lastCall.returns.getPlugin = NoValue
        /\ lastCall.returns.getAllPlugins = lastCall.before

C22_Witness ==
    /\ lastCall.op = "lookup"
    /\ Len(plugins) = 2
    /\ lastCall.returns.hasPlugin
    /\ lastCall.returns.getPlugin = plugins[2]

\* The names of the plugins a map holds.
NamesIn(map) == {map[i].name : i \in 1..Len(map)}

\* C23: the map changes only as follows: a registerPlugin call that
\* completed initialize and register successfully adds exactly one entry,
\* for the plugin's name; a successful unregisterPlugin(n) removes exactly
\* the entry of n; cleanup() removes every entry; every other call, and
\* every call that failed, leaves the map as it was.  No name is stored
\* twice.
C23_MapTracksSuccessfulCalls ==
    /\ Cardinality(NamesIn(plugins)) = Len(plugins)
    /\ (lastCall.op = "registerPlugin" /\ lastCall.outcome = "ok") =>
          /\ lastCall.calls = <<Call(lastCall.id, "initialize"), Call(lastCall.id, "register")>>
          /\ lastCall.raised = {}
          /\ Len(plugins) = Len(lastCall.before) + 1
          /\ SubSeq(plugins, 1, Len(lastCall.before)) = lastCall.before
          /\ plugins[Len(plugins)].name = lastCall.name
          /\ plugins[Len(plugins)].id = lastCall.id
    /\ (lastCall.op = "unregisterPlugin" /\ lastCall.outcome = "ok") =>
          /\ Len(plugins) = Len(lastCall.before) - 1
          /\ NamesIn(plugins) = NamesIn(lastCall.before) \ {lastCall.name}
          /\ \A i \in 1..Len(plugins) :
                \E j \in 1..Len(lastCall.before) : plugins[i] = lastCall.before[j]
    /\ lastCall.op = "cleanup" => plugins = << >>
    /\ (\/ lastCall.op \in {"healthCheckAll", "lookup", "driveDirectly", "none"}
        \/ (lastCall.op \in {"registerPlugin", "unregisterPlugin"}
            /\ lastCall.outcome = "threw")) =>
          plugins = lastCall.before

C23_Witness ==
    /\ lastCall.op = "unregisterPlugin"
    /\ lastCall.outcome = "ok"
    /\ Len(lastCall.before) = 2
    /\ Len(plugins) = 1
    /\ plugins[1] = lastCall.before[2]

\* C24: when initialize threw during registerPlugin, the call invoked
\* nothing else on the instance: neither register nor cleanup.
C24_NoCallAfterFailedInitialize ==
    (/\ lastCall.op = "registerPlugin"
     /\ Call(lastCall.id, "initialize") \in lastCall.raised) =>
        /\ \A k \in 1..Len(lastCall.calls) :
              lastCall.calls[k].id = lastCall.id => lastCall.calls[k].fn = "initialize"
        /\ lastCall.published = {}
        /\ serverTools = lastCall.toolsBefore

C24_Witness ==
    /\ lastCall.op = "registerPlugin"
    /\ lastCall.class = "RedisPlugin"
    /\ lastCall.raised = {Call(lastCall.id, "initialize")}
    /\ lastCall.calls = <<Call(lastCall.id, "initialize")>>

\* C25: when register threw during registerPlugin because the server
\* rejected a tool, the tools register had published before that one (the
\* tools declared before it, less the write tools of a read-only plugin)
\* are on the server after the call, and the plugin is not in the registry.
C25_PublishedToolsStayAfterFailedRegister ==
    (/\ lastCall.op = "registerPlugin"
     /\ Call(lastCall.id, "register") \in lastCall.raised) =>
        /\ lastCall.published \subseteq serverTools
        /\ serverTools = lastCall.toolsBefore \cup lastCall.published
        /\ \A i \in 1..Len(plugins) : plugins[i].id # lastCall.id
        /\ lastCall.rejected \in AllTools(lastCall.class)
        /\ \E r \in 1..Len(ToolsOf(lastCall.class)) :
              /\ ToolsOf(lastCall.class)[r].name = lastCall.rejected
              /\ lastCall.published =
                    {ToolsOf(lastCall.class)[h].name :
                        h \in {j \in 1..(r - 1) :
                                  \/ ToolsOf(lastCall.class)[j].name \in ReadTools(lastCall.class)
                                  \/ lastCall.mode # PluginMode.READONLY}}

\* A tool of the Redis plugin is on the server while no Redis plugin is in
\* the registry: "every tool on the server belongs to a plugin in the
\* registry" does not hold in this state.
C25_Witness ==
    /\ lastCall.op = "registerPlugin"
    /\ lastCall.class = "RedisPlugin"
    /\ lastCall.raised = {Call(lastCall.id, "register")}
    /\ lastCall.toolsBefore = {}
    /\ lastCall.published = {"redis_get", "redis_set"}
    /\ "redis_get" \in serverTools
    /\ "redis" \notin NamesIn(plugins)

\* C26: in a register() run of a read-only plugin the skipped write tools
\* do not reach the server and do not end the run: if the run threw, the
\* throw came from a read tool the server rejected, and every read tool
\* declared before that one, also after a skipped write tool, was published;
\* if it did not throw, every read tool was published.
C26_SkipDoesNotStopRegister ==
    (/\ lastCall.op \in {"registerPlugin", "driveDirectly"}
     /\ lastCall.class \in PluginBaseClasses
     /\ lastCall.mode = PluginMode.READONLY
     /\ \E k \in 1..Len(lastCall.calls) : lastCall.calls[k].fn = "register") =>
        /\ lastCall.published \cap WriteTools(lastCall.class) = {}
        /\ serverTools = lastCall.toolsBefore \cup lastCall.published
        /\ IF lastCall.raised = {}
           THEN lastCall.published = ReadTools(lastCall.class)
           ELSE ReadTools(lastCall.class) \ lastCall.published # {}

C26_Witness ==
    /\ lastCall.op = "registerPlugin"
    /\ lastCall.class = "MyPlugin"
    /\ lastCall.mode = PluginMode.READONLY
    /\ lastCall.outcome = "ok"
    /\ lastCall.published = {"my_tool"}
    /\ "my_write_tool" \notin serverTools

\* The tools of the last call's plugin that are declared with
\* isWriteTool = w and that its register() run exposed (TRUE) or did not.
Decisions(call, w) ==
    {t \in AllTools(call.class) : (t \in WriteTools(call.class)) = w}

\* C27: the expose/skip decision depends on the plugin's mode and on
\* isWriteTool only: in two consecutive register() runs that the server did
\* not interrupt, tools with the same isWriteTool of plugins with the same
\* mode are all exposed or all skipped, whatever their names and whatever
\* the registry holds.
C27_DecisionDependsOnModeAndFlagOnly ==
    [][(/\ lastCall.op \in {"registerPlugin", "driveDirectly"}
        /\ lastCall'.op \in {"registerPlugin", "driveDirectly"}
        /\ lastCall.outcome = "ok"
        /\ lastCall'.outcome = "ok"
        /\ lastCall.mode = lastCall'.mode) =>
           \A w \in BOOLEAN :
              \A t \in Decisions(lastCall, w) : \A u \in Decisions(lastCall', w) :
                 (t \in lastCall.published) = (u \in lastCall'.published)]_vars

C27_Witness ==
    /\ lastCall.op = "registerPlugin"
    /\ lastCall.class = "MyPlugin"
    /\ lastCall.outcome = "ok"
    /\ lastCall.mode = PluginMode.READONLY
    /\ Len(lastCall.before) = 1
    /\ lastCall.before[1].class = "RedisPlugin"
    /\ lastCall.before[1].mode = PluginMode.READONLY
    /\ lastCall.toolsBefore = {"redis_get"}
    /\ lastCall.published = {"my_tool"}

\* C28: the mode of the plugin a registerPlugin call goes on with is the
\* registry's defaultMode when the constructor left metadata.mode unset,
\* and the mode the constructor set otherwise.
C28_DefaultModeOnlyWhenUnset ==
    (lastCall.op = "registerPlugin" /\ lastCall.error # "duplicate") =>
        IF lastCall.class \in DatabasePlugins
        THEN lastCall.mode = ResolveMode(lastCall.input.configMode, lastCall.input.modeFromEnv)
        ELSE lastCall.mode = defaultMode

C28_Witness ==
    /\ lastCall.op = "registerPlugin"
    /\ lastCall.outcome = "ok"
    /\ lastCall.class = "RedisPlugin"
    /\ lastCall.mode = "FULL"
    /\ defaultMode = PluginMode.READONLY
    /\ plugins[Len(plugins)].mode = "FULL"

\* C29: within a sweep of cleanup() or healthCheckAll() at most one
\* plugin's call is in flight, it is the call the sweep made last, and the
\* sweep has made no call on a plugin after it.
C29_SweepCallsNeverOverlap ==
    sweeping.op # "none" =>
        /\ Cardinality(sweeping.inFlight) <= 1
        /\ \A id \in sweeping.inFlight :
              /\ lastCall.calls # << >>
              /\ lastCall.calls[Len(lastCall.calls)] = Call(id, SweepMethod(sweeping.op))
              /\ plugins[sweeping.next - 1].id = id

C29_Witness ==
    /\ sweeping.op = "healthCheckAll"
    /\ Len(plugins) = 2
    /\ Len(lastCall.calls) = 2
    /\ sweeping.inFlight = {plugins[2].id}
    /\ plugins[1].name \in DOMAIN lastCall.results

\* C30: when every plugin call settles, a cleanup() sweep that has begun
\* ends with the registry empty; and while a plugin's call has not settled
\* the sweep can do nothing but wait for it.
C30_CleanupSweepCompletes ==
    /\ (sweeping.op = "cleanup") ~>
          (sweeping = NoSweep /\ lastCall.op = "cleanup" /\ plugins = << >>)
    /\ [](sweeping.inFlight # {} => ~ENABLED (sweepCall \/ sweepReturn))

C30_Witness ==
    /\ sweeping = NoSweep
    /\ lastCall.op = "cleanup"
    /\ plugins = << >>
    /\ Len(lastCall.calls) = 2
    /\ Cardinality(lastCall.logged) = 1

---------------------------------------------------------------------------
(* Properties of one plugin instance, checked under SpecPlugin *)

\* The plugins whose healthCheck probes their client or pool.
ProbingClasses == {"RedisPlugin", "PostgresPlugin", "MysqlPlugin", "SqlServerPlugin"}

\* C31: the healthCheck of the Redis, Postgres, MySQL and SQL Server
\* plugins never throws; it returns false when the client or pool is null
\* and when the probe command throws, and true only when the client or
\* pool exists and the probe returned the expected answer.
C31_HealthCheckNeverThrows ==
    (instance.class \in ProbingClasses /\ instance.last.method = "healthCheck") =>
        /\ ~instance.last.threw
        /\ instance.last.clientBefore = "null" => ~instance.last.returns
        /\ instance.last.input = "throws" => ~instance.last.returns
        /\ instance.last.returns =>
              /\ instance.last.input = "expected"
              /\ instance.last.clientBefore # "null"
              /\ instance.last.queried = 1

\* A health check whose probe threw on an existing client returned false.
C31_Witness ==
    /\ instance.class \in ProbingClasses
    /\ instance.last.method = "healthCheck"
    /\ instance.last.clientBefore # "null"
    /\ instance.last.input = "throws"
    /\ ~instance.last.threw
    /\ ~instance.last.returns

\* C33: however often cleanup() is called on one instance, its client or
\* pool is closed at most once.
C33_CleanupClosesAtMostOnce ==
    instance.class \in ClientClasses => instance.closes <= 1

\* C34: a tool handler invoked while the client or pool is null does not
\* throw and sends no command: it returns an isError result carrying the
\* 'not initialized' message.
C34_NullClientHandlerReturnsError ==
    (instance.class \in ClientClasses
        /\ instance.last.method = "handler"
        /\ instance.last.clientBefore = "null") =>
        /\ ~instance.last.threw
        /\ instance.last.isError
        /\ instance.last.message = "not initialized"
        /\ instance.last.queried = 0

\* mongodb_find on a MongoDB plugin whose cleanup() closed and forgot the
\* client answered 'not initialized'.
C34_Witness ==
    /\ instance.class = "MongoDBPlugin"
    /\ instance.initialized
    /\ instance.closes = 1
    /\ instance.last.method = "handler"
    /\ instance.last.clientBefore = "null"
    /\ instance.last.isError
    /\ instance.last.message = "not initialized"

\* The trimmed, lower-cased text of query starts with 'select' or 'with'.
StartsWithSelectOrWith(query) ==
    \/ startsWith(toLowerCase(trim(query)), <<"s", "e", "l", "e", "c", "t">>)
    \/ startsWith(toLowerCase(trim(query)), <<"w", "i", "t", "h">>)

\* C35: postgres_query never sends to the pool a query whose trimmed,
\* lower-cased text does not start with 'select' or 'with': it returns an
\* isError result and the pool is not queried.
C35_PostgresQuerySendsOnlyReads ==
    (instance.class = "PostgresPlugin"
        /\ instance.last.method = "handler"
        /\ ~StartsWithSelectOrWith(QueryText[instance.last.input])) =>
        /\ instance.last.isError
        /\ instance.last.queried = 0

\* 'drop t;select 1' was refused by postgres_query on a live pool.
C35_Witness ==
    /\ instance.class = "PostgresPlugin"
    /\ instance.last.method = "handler"
    /\ instance.last.clientBefore # "null"
    /\ instance.last.input = "dropThenSelect"
    /\ instance.last.isError
    /\ instance.last.queried = 0

---------------------------------------------------------------------------
(* Properties of interleaved registerPlugin calls, checked under SpecRace *)

\* The registerPlugin calls that resolved.
Resolved == {i \in 1..Len(registering) : registering[i].at = "resolved"}

\* C32: of the interleaved registerPlugin calls for one name at most one
\* resolves, and the instance of every call that resolved is the one stored
\* under its name.
C32_OneResolvesAndIsStored ==
    /\ \A i, j \in Resolved : registering[i].name = registering[j].name => i = j
    /\ \A i \in Resolved :
          /\ hasPlugin(registering[i].name)
          /\ Entry(registering[i].name).id = registering[i].id

---------------------------------------------------------------------------
(* Properties of the Redis HTTP server, checked under SpecHttp *)

\* The session ID the last request carried, NoValue if it carried none.
CarriedSession == SessionIdOf(http.last.header, http.last.query)

\* The last request carried a session ID that was not a key of the map.
CarriedUnknownSession ==
    /\ http.last.method \in Methods
    /\ CarriedSession # NoValue
    /\ CarriedSession \notin http.last.before

\* Nothing was created for the last request: no transport, no
\* server.connect, no handleRequest, and the transports map is as before.
NothingCreated ==
    /\ http.last.created = 0
    /\ http.last.connects = 0
    /\ ~http.last.handled
    /\ http.transports = http.last.before

\* C36 as stated: a request carrying a session ID that is not a key of the
\* transports map is answered 404 and nothing is created for it; a
\* transport is created only for a request that carries no session ID.
C36_UnknownSessionGets404 ==
    /\ CarriedUnknownSession => (http.last.status = "404" /\ NothingCreated)
    /\ (http.last.method \in Methods /\ http.last.created = 1) =>
          CarriedSession = NoValue

\* C36, amended: nothing is created for a request carrying a session ID
\* that is not a key of the transports map, whatever its method; it is
\* answered 200 if its method is OPTIONS, 500 if reading its body or URL
\* threw, and 404 otherwise; a transport is created only for a request
\* that carries no session ID.
C36_UnknownSessionCreatesNothing ==
    /\ CarriedUnknownSession =>
          /\ NothingCreated
          /\ http.last.status =
                IF http.last.method = "OPTIONS" THEN "200"
                ELSE IF http.last.readThrew THEN "500"
                ELSE "404"
    /\ (http.last.method \in Methods /\ http.last.created = 1) =>
          CarriedSession = NoValue

\* A GET carrying an unknown session ID, sent while another session was
\* open, was answered 404.
C36_Witness ==
    /\ CarriedUnknownSession
    /\ http.last.method = "GET"
    /\ http.last.before # {}
    /\ http.last.status = "404"
    /\ NothingCreated

====
